---- MODULE Spec2Model ----
(***************************************************************************)
(* DMusicPak container codec: the in-memory Package (dmusicpak.cpp) and    *)
(* its binary encoder / decoder (io.cpp), modelled byte for byte.          *)
(*                                                                         *)
(* A byte buffer is a sequence of naturals 0..255; the C index i is the    *)
(* sequence index i + 1.  A pointer is a record [null, bytes, more]: the    *)
(* object it points to holds Len(bytes) + more bytes, of which the model   *)
(* holds the first Len(bytes) (more = 0 everywhere but in the objects too  *)
(* long to hold byte by byte).                                             *)
(*                                                                         *)
(* TLC integers are 32-bit signed, so a machine integer at or above 2^30   *)
(* is held as an offset from its modulus: UINT32_WRAP stands for 2^32 and  *)
(* SIZE_MAX_ENC for 2^64 - 1 (size_t is 64 bits wide, LP64).  The holding  *)
(* is order preserving and exact for values within 2^28 of either modulus; *)
(* every length the inputs declare is below 2^24 or within 2^24 of 2^32.   *)
(***************************************************************************)
EXTENDS Integers, Sequences, FiniteSets, TLC

\* ------------------------------------------------------------------------
\* Machine integers
\* ------------------------------------------------------------------------
W24 == 16777216
PLAIN_LIMIT == 64 * W24
UINT32_WRAP == 96 * W24
SIZE_MAX_ENC == 2147483647
SIZE_RANGE_LOW == SIZE_MAX_ENC - 16 * W24
\* the largest request malloc can satisfy (PTRDIFF_MAX): above every uint32
\* value, below every size_t value that wrapped under zero
MALLOC_LIMIT == SIZE_RANGE_LOW

\* uint32_t a + b
Add32(a, b) == IF a + b >= UINT32_WRAP THEN a + b - UINT32_WRAP ELSE a + b
\* uint32_t a - b
Sub32(a, b) == IF a >= b THEN a - b ELSE UINT32_WRAP - (b - a)
\* size_t a - b
SubSize(a, b) == IF a >= b THEN a - b ELSE (SIZE_MAX_ENC - (b - a)) + 1
\* size_t a + b
AddSize(a, b) == IF a > SIZE_MAX_ENC - b THEN (a - (SIZE_MAX_ENC - b)) - 1 ELSE a + b
\* (uint32_t) of a size_t
ToU32(x) ==
    IF x >= SIZE_RANGE_LOW THEN UINT32_WRAP - ((SIZE_MAX_ENC - x) + 1)
    ELSE IF x >= UINT32_WRAP THEN x - UINT32_WRAP
    ELSE x

Max(a, b) == IF a >= b THEN a ELSE b
Min(a, b) == IF a <= b THEN a ELSE b

\* ------------------------------------------------------------------------
\* Pointers and C strings
\* ------------------------------------------------------------------------
Null == [null |-> TRUE, bytes |-> <<>>, more |-> 0]
Ptr(b) == [null |-> FALSE, bytes |-> b, more |-> 0]
\* an object of Len(b) + m bytes that begins with the bytes b
LongPtr(b, m) == [null |-> FALSE, bytes |-> b, more |-> m]
\* the bytes the object behind p holds (none behind NULL)
ObjLen(p) == Len(p.bytes) + p.more

RECURSIVE ZeroPos(_, _)
\* index of the first NUL in s at or after position i, Len(s) + 1 if none
ZeroPos(s, i) ==
    IF i > Len(s) THEN i
    ELSE IF s[i] = 0 THEN i
    ELSE ZeroPos(s, i + 1)

\* the C string a NUL-terminated copy of s holds: the bytes before its first NUL
CStr(s) == SubSeq(s, 1, ZeroPos(s, 1) - 1)

\* strlen of a non-null string
strlen(p) == ObjLen(p)

\* ------------------------------------------------------------------------
\* Little-endian integers  (dmusicpak.cpp)
\* ------------------------------------------------------------------------
\* the top byte of a held uint32
Hi8(v) == IF v >= PLAIN_LIMIT THEN (v \div W24) + 160 ELSE v \div W24

write_uint32_le(value) ==
    << value % 256, (value \div 256) % 256, (value \div 65536) % 256, Hi8(value) >>

write_uint16_le(value) == << value % 256, (value \div 256) % 256 >>

\* data[i] of the buffer, or the byte g the build happens to find past its end
Rd(data, i, g) == IF i < Len(data) THEN data[i + 1] ELSE g

read_uint32_le(data, at, g) ==
    LET b3 == Rd(data, at + 3, g)
    IN  Rd(data, at, g) + 256 * Rd(data, at + 1, g) + 65536 * Rd(data, at + 2, g)
          + W24 * (IF b3 >= 224 THEN b3 - 160 ELSE b3)

read_uint16_le(data, at, g) == Rd(data, at, g) + 256 * Rd(data, at + 1, g)

\* ------------------------------------------------------------------------
\* Bounds of the model
\* ------------------------------------------------------------------------
\* bytes past the end of a buffer that an overrunning copy is followed for
MaxGarbage == 2
\* chunks a hand-built input holds
MaxChunks == 3
\* sink calls one stream_audio call is followed for
MaxSinkCalls == 4

\* the longest string write_string is tried on in full
MaxStringLen == 3

\* the longest response body a server sends to get_audio_chunk_url
MaxBody == 4

\* the most reads that return bytes in one chunk-by-chunk loop
MaxReads == 6

\* ------------------------------------------------------------------------
\* File format constants  (io.cpp)
\* ------------------------------------------------------------------------
DMUSICPAK_MAGIC == << 68, 77, 80, 75 >>
DMUSICPAK_VERSION == 1
CHUNK_METADATA == 1
CHUNK_LYRICS == 2
CHUNK_AUDIO == 3
CHUNK_COVER == 4
\* sizeof(file_header_t): char[4] + uint32_t + uint32_t
SIZEOF_FILE_HEADER == 12
\* sizeof(chunk_header_t): uint8_t, 3 bytes of padding, uint32_t
SIZEOF_CHUNK_HEADER == 8

\* ------------------------------------------------------------------------
\* The Package  (internal.h, dmusicpak.cpp)
\* ------------------------------------------------------------------------
ZeroMetadata ==
    [title |-> Null, artist |-> Null, album |-> Null, genre |-> Null,
     year |-> Null, comment |-> Null,
     duration_ms |-> 0, bitrate |-> 0, sample_rate |-> 0, channels |-> 0]
ZeroLyrics == [format |-> 0, data |-> Null, size |-> 0]
ZeroAudio == [format |-> 0, source_filename |-> Null, data |-> Null, size |-> 0]
ZeroCover == [format |-> 0, data |-> Null, size |-> 0, width |-> 0, height |-> 0]

\* calloc + memset 0 of the whole struct
dmusicpak_create ==
    [metadata |-> ZeroMetadata, lyrics |-> ZeroLyrics,
     audio |-> ZeroAudio, cover |-> ZeroCover,
     has_metadata |-> 0, has_lyrics |-> 0, has_audio |-> 0, has_cover |-> 0]

\* malloc(n) at an allocation site: NULL when the site is out of memory or
\* the request is larger than any object can be
MallocOk(n, site, fail) == site \notin fail /\ n < MALLOC_LIMIT

\* str_dup: NULL for NULL, NULL when malloc fails, else a copy
str_dup(str, fail) ==
    IF str.null THEN Null
    ELSE IF ~MallocOk(strlen(str) + 1, "string", fail) THEN Null
    ELSE Ptr(str.bytes)

\* n bytes g
Garbage(n, g) == [i \in 1..n |-> g]

\* memcpy(dst, p, n) from the object behind p: those of the n bytes copied
\* that the model holds (the overrun, when n is larger than the object, is
\* followed for MaxGarbage bytes)
CopyOut(p, n, g) ==
    IF n <= Len(p.bytes) THEN SubSeq(p.bytes, 1, n)
    ELSE IF n <= ObjLen(p) THEN p.bytes
    ELSE p.bytes \o Garbage(Min(n - ObjLen(p), MaxGarbage), g)

\* the copy reads past the object it copies from
CopyOverruns(p, n) == n > ObjLen(p)

\* malloc(n) + memcpy(dst, p, n) inside a set_* or get_* call whose caller
\* passes an object of at least n bytes: the new object
CopyObject(p, n) ==
    IF n <= Len(p.bytes) THEN Ptr(SubSeq(p.bytes, 1, n))
    ELSE LongPtr(p.bytes, n - Len(p.bytes))

\* ------------------------------------------------------------------------
\* Encoder  (io.cpp)
\* ------------------------------------------------------------------------
\* write_string: the bytes written; its return value is their count
write_string(str) ==
    IF str.null THEN write_uint32_le(0)
    ELSE LET len == ToU32(strlen(str))
         IN  write_uint32_le(len) \o SubSeq(str.bytes, 1, len)

StrLenOrZero(str) == IF str.null THEN 0 ELSE strlen(str)

calculate_metadata_size(metadata) ==
    (4 + StrLenOrZero(metadata.title)) + (4 + StrLenOrZero(metadata.artist))
      + (4 + StrLenOrZero(metadata.album)) + (4 + StrLenOrZero(metadata.genre))
      + (4 + StrLenOrZero(metadata.year)) + (4 + StrLenOrZero(metadata.comment))
      + (4 + 4 + 4 + 2)

write_metadata_chunk(metadata) ==
    write_string(metadata.title) \o write_string(metadata.artist)
      \o write_string(metadata.album) \o write_string(metadata.genre)
      \o write_string(metadata.year) \o write_string(metadata.comment)
      \o write_uint32_le(metadata.duration_ms) \o write_uint32_le(metadata.bitrate)
      \o write_uint32_le(metadata.sample_rate) \o write_uint16_le(metadata.channels)

\* "Calculate total size": the size_t handed to malloc
TotalSize(package) ==
    LET s0 == SIZEOF_FILE_HEADER
        s1 == IF package.has_metadata # 0
              THEN AddSize(s0, SIZEOF_CHUNK_HEADER + calculate_metadata_size(package.metadata))
              ELSE s0
        s2 == IF package.has_lyrics # 0
              THEN AddSize(s1, AddSize(SIZEOF_CHUNK_HEADER + 4, package.lyrics.size))
              ELSE s1
        s3 == IF package.has_audio # 0
              THEN AddSize(s2, AddSize(SIZEOF_CHUNK_HEADER + 4
                                         + StrLenOrZero(package.audio.source_filename),
                                       package.audio.size))
              ELSE s2
    IN  IF package.has_cover # 0
        THEN AddSize(s3, AddSize(SIZEOF_CHUNK_HEADER + 4 + 4 + 4, package.cover.size))
        ELSE s3

\* num_chunks++ once per present section
NumChunks(package) ==
    (IF package.has_metadata # 0 THEN 1 ELSE 0) + (IF package.has_lyrics # 0 THEN 1 ELSE 0)
      + (IF package.has_audio # 0 THEN 1 ELSE 0) + (IF package.has_cover # 0 THEN 1 ELSE 0)

\* "Write file header"
WriteFileHeader(num_chunks) ==
    DMUSICPAK_MAGIC \o write_uint32_le(DMUSICPAK_VERSION) \o write_uint32_le(num_chunks)

\* "Write metadata chunk"
WriteMetadata(package) ==
    IF package.has_metadata = 0 THEN << >>
    ELSE << CHUNK_METADATA >>
           \o write_uint32_le(ToU32(calculate_metadata_size(package.metadata)))
           \o write_metadata_chunk(package.metadata)

\* "Write lyrics chunk"
WriteLyrics(package, g) ==
    IF package.has_lyrics = 0 THEN << >>
    ELSE << CHUNK_LYRICS >>
           \o write_uint32_le(ToU32(AddSize(4, package.lyrics.size)))
           \o write_uint32_le(package.lyrics.format)
           \o CopyOut(package.lyrics.data, package.lyrics.size, g)

\* "Write audio chunk"
WriteAudio(package, g) ==
    IF package.has_audio = 0 THEN << >>
    ELSE LET filename_len == ToU32(StrLenOrZero(package.audio.source_filename))
         IN  << CHUNK_AUDIO >>
               \o write_uint32_le(ToU32(AddSize(4 + filename_len, package.audio.size)))
               \o write_string(package.audio.source_filename)
               \o CopyOut(package.audio.data, package.audio.size, g)

\* "Write cover chunk"
WriteCover(package, g) ==
    IF package.has_cover = 0 THEN << >>
    ELSE << CHUNK_COVER >>
           \o write_uint32_le(ToU32(AddSize(4 + 4 + 4, package.cover.size)))
           \o write_uint32_le(package.cover.format)
           \o write_uint32_le(package.cover.width)
           \o write_uint32_le(package.cover.height)
           \o CopyOut(package.cover.data, package.cover.size, g)

\* a memcpy of save_memory copies more bytes than the section's buffer holds
SaveOverruns(package) ==
    \/ package.has_lyrics # 0 /\ CopyOverruns(package.lyrics.data, package.lyrics.size)
    \/ package.has_audio # 0 /\ CopyOverruns(package.audio.data, package.audio.size)
    \/ package.has_cover # 0 /\ CopyOverruns(package.cover.data, package.cover.size)

\* the running offset when save_memory returns
WrittenSize(package) ==
    LET o0 == 4 + 4 + 4
        o1 == IF package.has_metadata # 0
              THEN o0 + 1 + 4 + Len(write_metadata_chunk(package.metadata)) ELSE o0
        o2 == IF package.has_lyrics # 0
              THEN AddSize(o1 + 1 + 4 + 4, package.lyrics.size) ELSE o1
        o3 == IF package.has_audio # 0
              THEN AddSize(o2 + 1 + 4 + Len(write_string(package.audio.source_filename)),
                           package.audio.size)
              ELSE o2
    IN  IF package.has_cover # 0
        THEN AddSize(o3 + 1 + 4 + 4 + 4 + 4, package.cover.size) ELSE o3

\* a writer that emits the audio chunk before the lyrics chunk
dmusicpak_save_memory_AudioFirst(package, g, fail) ==
    IF ~MallocOk(TotalSize(package), "buffer", fail)
    THEN [error |-> "MEMORY_ALLOC", buffer |-> << >>, size |-> 0, capacity |-> 0,
          overrun |-> FALSE, package |-> package]
    ELSE LET out == WriteFileHeader(NumChunks(package)) \o WriteMetadata(package)
                      \o WriteAudio(package, g) \o WriteLyrics(package, g)
                      \o WriteCover(package, g)
         IN  [error |-> "OK", buffer |-> out, size |-> WrittenSize(package),
              capacity |-> TotalSize(package), overrun |-> SaveOverruns(package),
              package |-> package]

\* dmusicpak_save_memory: the error code, *buffer, *size, the malloc'ed
\* capacity and the Package as the call leaves it; overrun = it read past a
\* section buffer on the way
dmusicpak_save_memory(package, g, fail) ==
    IF ~MallocOk(TotalSize(package), "buffer", fail)
    THEN [error |-> "MEMORY_ALLOC", buffer |-> << >>, size |-> 0, capacity |-> 0,
          overrun |-> FALSE, package |-> package]
    ELSE LET out == WriteFileHeader(NumChunks(package)) \o WriteMetadata(package)
                      \o WriteLyrics(package, g) \o WriteAudio(package, g)
                      \o WriteCover(package, g)
         IN  [error |-> "OK", buffer |-> out, size |-> WrittenSize(package),
              capacity |-> TotalSize(package), overrun |-> SaveOverruns(package),
              package |-> package]

\* ------------------------------------------------------------------------
\* Decoder  (io.cpp)
\* ------------------------------------------------------------------------
\* memcpy(dst, data + at, n) from the input buffer: the n bytes copied (the
\* part past the end of the buffer is followed for MaxGarbage bytes)
CopyIn(data, at, n, g) ==
    LET end == Min(at + n, Len(data))
        inside == IF at < end THEN SubSeq(data, at + 1, end) ELSE << >>
    IN  inside \o Garbage(Min(n - Len(inside), MaxGarbage), g)

\* read_string at data + at: *str, the return value, and hi = one past the
\* last index it read
read_string(data, at, g, fail) ==
    LET len == read_uint32_le(data, at, g)
    IN  IF len = 0 THEN [str |-> Null, ret |-> 4, hi |-> at + 4]
        ELSE IF ~MallocOk(Add32(len, 1), "string", fail)
             THEN [str |-> Null, ret |-> 0, hi |-> at + 4]
        ELSE [str |-> Ptr(CStr(CopyIn(data, at + 4, len, g))),
              ret |-> Add32(4, len), hi |-> at + 4 + len]

\* the strings of dmusicpak_metadata_t in the order read_metadata_chunk reads them
MetadataStrings == << "title", "artist", "album", "genre", "year", "comment" >>

RECURSIVE ReadMetadataFields(_, _, _, _, _, _, _)
\* the body of read_metadata_chunk from its k-th read_string on: every string
\* is `offset += read_string(...)`, then the four integers are read at offset
ReadMetadataFields(data, at, k, offset, metadata, g, fail) ==
    IF k > Len(MetadataStrings)
    THEN [metadata |->
              [metadata EXCEPT !.duration_ms = read_uint32_le(data, at + offset, g),
                               !.bitrate = read_uint32_le(data, at + offset + 4, g),
                               !.sample_rate = read_uint32_le(data, at + offset + 8, g),
                               !.channels = read_uint16_le(data, at + offset + 12, g)],
          hi |-> at + offset + 14]
    ELSE LET r == read_string(data, at + offset, g, fail)
         IN  ReadMetadataFields(data, at, k + 1, AddSize(offset, r.ret),
                                [metadata EXCEPT ![MetadataStrings[k]] = r.str], g, fail)

\* read_metadata_chunk at data + at: the struct it fills, hi as above
read_metadata_chunk(data, at, g, fail) ==
    ReadMetadataFields(data, at, 1, 0, ZeroMetadata, g, fail)

\* case CHUNK_METADATA
ReadMetadataCase(package, data, offset, chunk_size, g, fail) ==
    LET r == read_metadata_chunk(data, offset, g, fail)
    IN  [package |-> [package EXCEPT !.metadata = r.metadata, !.has_metadata = 1],
         hi |-> r.hi]

\* case CHUNK_LYRICS
ReadLyricsCase(package, data, offset, chunk_size, g, fail) ==
    LET format == read_uint32_le(data, offset, g)
        size == Sub32(chunk_size, 4)
        p1 == [package EXCEPT !.lyrics.format = format, !.lyrics.size = size]
    IN  IF size > 0
        THEN IF MallocOk(size, "lyrics", fail)
             THEN [package |-> [p1 EXCEPT !.lyrics.data = Ptr(CopyIn(data, offset + 4, size, g)),
                                          !.has_lyrics = 1],
                   hi |-> offset + 4 + size]
             ELSE [package |-> [p1 EXCEPT !.lyrics.data = Null], hi |-> offset + 4]
        ELSE [package |-> p1, hi |-> offset + 4]

\* case CHUNK_AUDIO
ReadAudioCase(package, data, offset, chunk_size, g, fail) ==
    LET r == read_string(data, offset, g, fail)
        str_offset == r.ret
        size == SubSize(chunk_size, str_offset)
        p1 == [package EXCEPT !.audio.source_filename = r.str, !.audio.size = size]
    IN  IF size > 0
        THEN IF MallocOk(size, "audio", fail)
             THEN [package |-> [p1 EXCEPT !.audio.data =
                                              Ptr(CopyIn(data, offset + str_offset, size, g)),
                                          !.has_audio = 1],
                   hi |-> Max(r.hi, offset + str_offset + size)]
             ELSE [package |-> [p1 EXCEPT !.audio.data = Null], hi |-> r.hi]
        ELSE [package |-> p1, hi |-> r.hi]

\* case CHUNK_COVER
ReadCoverCase(package, data, offset, chunk_size, g, fail) ==
    LET size == Sub32(chunk_size, 12)
        p1 == [package EXCEPT !.cover.format = read_uint32_le(data, offset, g),
                              !.cover.width = read_uint32_le(data, offset + 4, g),
                              !.cover.height = read_uint32_le(data, offset + 8, g),
                              !.cover.size = size]
    IN  IF size > 0
        THEN IF MallocOk(size, "cover", fail)
             THEN [package |-> [p1 EXCEPT !.cover.data = Ptr(CopyIn(data, offset + 12, size, g)),
                                          !.has_cover = 1],
                   hi |-> offset + 12 + size]
             ELSE [package |-> [p1 EXCEPT !.cover.data = Null], hi |-> offset + 12]
        ELSE [package |-> p1, hi |-> offset + 12]

\* a switch whose default label shares the lyrics case
ReadChunkBody_UnknownAsLyrics(package, chunk_type, data, offset, chunk_size, g, fail) ==
    CASE chunk_type = CHUNK_METADATA ->
             ReadMetadataCase(package, data, offset, chunk_size, g, fail)
      [] chunk_type = CHUNK_AUDIO ->
             ReadAudioCase(package, data, offset, chunk_size, g, fail)
      [] chunk_type = CHUNK_COVER ->
             ReadCoverCase(package, data, offset, chunk_size, g, fail)
      [] OTHER -> ReadLyricsCase(package, data, offset, chunk_size, g, fail)

\* switch (chunk_type): an unknown type falls through with nothing read
ReadChunkBody(package, chunk_type, data, offset, chunk_size, g, fail) ==
    CASE chunk_type = CHUNK_METADATA ->
             ReadMetadataCase(package, data, offset, chunk_size, g, fail)
      [] chunk_type = CHUNK_LYRICS ->
             ReadLyricsCase(package, data, offset, chunk_size, g, fail)
      [] chunk_type = CHUNK_AUDIO ->
             ReadAudioCase(package, data, offset, chunk_size, g, fail)
      [] chunk_type = CHUNK_COVER ->
             ReadCoverCase(package, data, offset, chunk_size, g, fail)
      [] OTHER -> [package |-> package, hi |-> 0]

RECURSIVE ReadChunks_NoLengthCheck(_, _, _, _, _, _, _, _)
\* a loop that does not compare the declared length with the bytes left
ReadChunks_NoLengthCheck(data, num_chunks, i, offset, package, hi, g, fail) ==
    LET size == Len(data)
    IN  IF ~(i < num_chunks /\ offset < size) THEN [package |-> package, hi |-> hi]
        ELSE IF offset + 5 > size THEN [package |-> package, hi |-> hi]
        ELSE LET chunk_type == data[offset + 1]
                 chunk_size == read_uint32_le(data, offset + 1, g)
                 body == offset + 5
                 r == ReadChunkBody(package, chunk_type, data, body, chunk_size, g, fail)
             IN  ReadChunks_NoLengthCheck(data, num_chunks, i + 1, body + chunk_size,
                                          r.package, Max(Max(hi, body), r.hi), g, fail)

RECURSIVE ReadChunks(_, _, _, _, _, _, _, _)
\* the end of an iteration: the loop goes on from the next offset with the
\* Package as the switch left it
NextChunk(data, num_chunks, i, offset, r, hi, g, fail) ==
    ReadChunks(data, num_chunks, i, offset, r.package, Max(hi, r.hi), g, fail)

\* "Read chunks": the for loop from iteration i at the given offset; hi is one
\* past the highest index read so far
ReadChunks(data, num_chunks, i, offset, package, hi, g, fail) ==
    LET size == Len(data)
    IN  IF ~(i < num_chunks /\ offset < size) THEN [package |-> package, hi |-> hi]
        ELSE IF offset + 5 > size THEN [package |-> package, hi |-> hi]
        ELSE LET chunk_type == data[offset + 1]
                 chunk_size == read_uint32_le(data, offset + 1, g)
                 body == offset + 5
             IN  IF body + chunk_size > size
                 THEN [package |-> package, hi |-> Max(hi, body)]
                 ELSE NextChunk(data, num_chunks, i + 1, body + chunk_size,
                                ReadChunkBody(package, chunk_type, data, body,
                                              chunk_size, g, fail),
                                Max(hi, body), g, fail)

\* size < sizeof(file_header_t)
TooShort(data) == Len(data) < SIZEOF_FILE_HEADER
\* a magic check that compares three bytes instead of four
MagicMatches_ThreeBytes(data) == SubSeq(data, 1, 3) = SubSeq(DMUSICPAK_MAGIC, 1, 3)

\* memcmp(data, DMUSICPAK_MAGIC, 4) == 0
MagicMatches(data) == SubSeq(data, 1, 4) = DMUSICPAK_MAGIC
\* version == DMUSICPAK_VERSION
VersionMatches(data) == read_uint32_le(data, 4, 0) = DMUSICPAK_VERSION

\* header checks that accept any version
HeaderOk_AnyVersion(data) == ~TooShort(data) /\ MagicMatches(data)

\* the header checks, in the order the code makes them
HeaderOk(data) == ~TooShort(data) /\ MagicMatches(data) /\ VersionMatches(data)

\* one past the highest index read by the header checks that reject data
HeaderReadExtent(data) ==
    IF TooShort(data) THEN 0 ELSE IF ~MagicMatches(data) THEN 4 ELSE 8

\* dmusicpak_load_memory(data, size) for a non-null data of Len(data) bytes:
\* the pointer it returns (null or a Package), hi = one past the highest
\* index of data it read, and error = the error code it hands the caller
\* (none: the function returns the pointer alone)
dmusicpak_load_memory(data, g, fail) ==
    IF ~HeaderOk(data)
    THEN [null |-> TRUE, package |-> dmusicpak_create,
          hi |-> HeaderReadExtent(data), error |-> "NONE"]
    ELSE IF ~MallocOk(1, "package", fail)
    THEN [null |-> TRUE, package |-> dmusicpak_create, hi |-> 12, error |-> "NONE"]
    ELSE [null |-> FALSE, error |-> "NONE"]
           @@ ReadChunks(data, read_uint32_le(data, 8, g), 0, 12,
                         dmusicpak_create, 12, g, fail)

\* ------------------------------------------------------------------------
\* Package setters  (dmusicpak.cpp)
\* ------------------------------------------------------------------------
\* each returns the error code and the Package as the call leaves it; the
\* dmusicpak_free_* call at the top zeroes the section struct and leaves the
\* has_* flag as it was

dmusicpak_set_metadata(package, metadata, fail) ==
    [error |-> "OK",
     package |-> [package EXCEPT
        !.metadata = [title |-> str_dup(metadata.title, fail),
                      artist |-> str_dup(metadata.artist, fail),
                      album |-> str_dup(metadata.album, fail),
                      genre |-> str_dup(metadata.genre, fail),
                      year |-> str_dup(metadata.year, fail),
                      comment |-> str_dup(metadata.comment, fail),
                      duration_ms |-> metadata.duration_ms,
                      bitrate |-> metadata.bitrate,
                      sample_rate |-> metadata.sample_rate,
                      channels |-> metadata.channels],
        !.has_metadata = 1]]

dmusicpak_set_lyrics(package, lyrics, fail) ==
    LET p1 == [package EXCEPT !.lyrics = [ZeroLyrics EXCEPT !.format = lyrics.format,
                                                            !.size = lyrics.size]]
    IN  IF ~lyrics.data.null /\ lyrics.size > 0
        THEN IF ~MallocOk(lyrics.size, "lyrics", fail)
             THEN [error |-> "MEMORY_ALLOC", package |-> p1]
             ELSE [error |-> "OK",
                   package |-> [p1 EXCEPT !.lyrics.data =
                                              CopyObject(lyrics.data, lyrics.size),
                                          !.has_lyrics = 1]]
        ELSE [error |-> "OK", package |-> [p1 EXCEPT !.has_lyrics = 1]]

dmusicpak_set_audio(package, audio, fail) ==
    LET p1 == [package EXCEPT !.audio =
                   [ZeroAudio EXCEPT !.source_filename = str_dup(audio.source_filename, fail),
                                     !.size = audio.size]]
    IN  IF ~audio.data.null /\ audio.size > 0
        THEN IF ~MallocOk(audio.size, "audio", fail)
             THEN [error |-> "MEMORY_ALLOC", package |-> p1]
             ELSE [error |-> "OK",
                   package |-> [p1 EXCEPT !.audio.data =
                                              CopyObject(audio.data, audio.size),
                                          !.has_audio = 1]]
        ELSE [error |-> "OK", package |-> [p1 EXCEPT !.has_audio = 1]]

\* a set_cover that starts from an empty Package
dmusicpak_set_cover_Resetting(package, cover, fail) ==
    [error |-> "OK",
     package |-> [dmusicpak_create EXCEPT !.cover = [cover EXCEPT !.data = Null],
                                          !.has_cover = 1]]

dmusicpak_set_cover(package, cover, fail) ==
    LET p1 == [package EXCEPT !.cover = [ZeroCover EXCEPT !.format = cover.format,
                                                          !.size = cover.size,
                                                          !.width = cover.width,
                                                          !.height = cover.height]]
    IN  IF ~cover.data.null /\ cover.size > 0
        THEN IF ~MallocOk(cover.size, "cover", fail)
             THEN [error |-> "MEMORY_ALLOC", package |-> p1]
             ELSE [error |-> "OK",
                   package |-> [p1 EXCEPT !.cover.data =
                                              CopyObject(cover.data, cover.size),
                                          !.has_cover = 1]]
        ELSE [error |-> "OK", package |-> [p1 EXCEPT !.has_cover = 1]]

\* ------------------------------------------------------------------------
\* Package accessors  (dmusicpak.cpp)
\* ------------------------------------------------------------------------
\* each returns the error code, the Package as the call leaves it and the
\* caller's result struct as the call leaves it.  The data object of a
\* section that set_* filled holds size bytes, so the copies below stay
\* inside it.

\* a result struct or buffer the call did not write to
Unwritten == [unwritten |-> TRUE]

dmusicpak_get_metadata(package, fail) ==
    IF package.has_metadata = 0
    THEN [error |-> "NOT_SUPPORTED", package |-> package, out |-> Unwritten]
    ELSE [error |-> "OK", package |-> package,
          out |-> [title |-> str_dup(package.metadata.title, fail),
                   artist |-> str_dup(package.metadata.artist, fail),
                   album |-> str_dup(package.metadata.album, fail),
                   genre |-> str_dup(package.metadata.genre, fail),
                   year |-> str_dup(package.metadata.year, fail),
                   comment |-> str_dup(package.metadata.comment, fail),
                   duration_ms |-> package.metadata.duration_ms,
                   bitrate |-> package.metadata.bitrate,
                   sample_rate |-> package.metadata.sample_rate,
                   channels |-> package.metadata.channels]]

\* a get_lyrics that hands the caller the Package's own buffer
dmusicpak_get_lyrics_Moving(package, fail) ==
    IF package.has_lyrics = 0
    THEN [error |-> "NOT_SUPPORTED", package |-> package, out |-> Unwritten]
    ELSE [error |-> "OK", package |-> [package EXCEPT !.lyrics.data = Null],
          out |-> package.lyrics]

\* a get_lyrics without the presence test
dmusicpak_get_lyrics_NoPresenceCheck(package, fail) ==
    [error |-> "OK", package |-> package, out |-> package.lyrics]

dmusicpak_get_lyrics(package, fail) ==
    IF package.has_lyrics = 0
    THEN [error |-> "NOT_SUPPORTED", package |-> package, out |-> Unwritten]
    ELSE IF ~package.lyrics.data.null /\ package.lyrics.size > 0
    THEN IF ~MallocOk(package.lyrics.size, "lyrics", fail)
         THEN [error |-> "MEMORY_ALLOC", package |-> package,
               out |-> [ZeroLyrics EXCEPT !.format = package.lyrics.format,
                                          !.size = package.lyrics.size]]
         ELSE [error |-> "OK", package |-> package,
               out |-> [ZeroLyrics EXCEPT !.format = package.lyrics.format,
                                          !.size = package.lyrics.size,
                                          !.data = CopyObject(package.lyrics.data,
                                                              package.lyrics.size)]]
    ELSE [error |-> "OK", package |-> package,
          out |-> [ZeroLyrics EXCEPT !.format = package.lyrics.format,
                                     !.size = package.lyrics.size]]

\* audio->format is neither read nor written
dmusicpak_get_audio(package, fail) ==
    IF package.has_audio = 0
    THEN [error |-> "NOT_SUPPORTED", package |-> package, out |-> Unwritten]
    ELSE IF ~package.audio.data.null /\ package.audio.size > 0
    THEN IF ~MallocOk(package.audio.size, "audio", fail)
         THEN [error |-> "MEMORY_ALLOC", package |-> package,
               out |-> [ZeroAudio EXCEPT
                          !.source_filename = str_dup(package.audio.source_filename, fail),
                          !.size = package.audio.size]]
         ELSE [error |-> "OK", package |-> package,
               out |-> [ZeroAudio EXCEPT
                          !.source_filename = str_dup(package.audio.source_filename, fail),
                          !.size = package.audio.size,
                          !.data = CopyObject(package.audio.data, package.audio.size)]]
    ELSE [error |-> "OK", package |-> package,
          out |-> [ZeroAudio EXCEPT
                     !.source_filename = str_dup(package.audio.source_filename, fail),
                     !.size = package.audio.size]]

dmusicpak_get_cover(package, fail) ==
    IF package.has_cover = 0
    THEN [error |-> "NOT_SUPPORTED", package |-> package, out |-> Unwritten]
    ELSE IF ~package.cover.data.null /\ package.cover.size > 0
    THEN IF ~MallocOk(package.cover.size, "cover", fail)
         THEN [error |-> "MEMORY_ALLOC", package |-> package,
               out |-> [ZeroCover EXCEPT !.format = package.cover.format,
                                         !.size = package.cover.size,
                                         !.width = package.cover.width,
                                         !.height = package.cover.height]]
         ELSE [error |-> "OK", package |-> package,
               out |-> [ZeroCover EXCEPT !.format = package.cover.format,
                                         !.size = package.cover.size,
                                         !.width = package.cover.width,
                                         !.height = package.cover.height,
                                         !.data = CopyObject(package.cover.data,
                                                             package.cover.size)]]
    ELSE [error |-> "OK", package |-> package,
          out |-> [ZeroCover EXCEPT !.format = package.cover.format,
                                    !.size = package.cover.size,
                                    !.width = package.cover.width,
                                    !.height = package.cover.height]]

\* (int64_t) of a size_t
ToI64(x) == IF x >= SIZE_RANGE_LOW THEN (x - SIZE_MAX_ENC) - 1 ELSE x

\* memcpy(dst, p + at, n) for at inside the object behind p: those of the n
\* bytes that the model holds, the part past the object followed for
\* MaxGarbage bytes
CopyFrom(p, at, n, g) ==
    LET held == IF at >= Len(p.bytes) THEN << >>
                ELSE IF n >= Len(p.bytes) - at THEN SubSeq(p.bytes, at + 1, Len(p.bytes))
                ELSE SubSeq(p.bytes, at + 1, at + n)
    IN  IF p.null THEN Garbage(Min(n, MaxGarbage), g)
        ELSE IF n > ObjLen(p) - at
        THEN held \o Garbage(Min(n - (ObjLen(p) - at), MaxGarbage), g)
        ELSE held

\* the copy of n bytes from p + at reads outside the object behind p
CopyFromOverruns(p, at, n) == n > 0 /\ (p.null \/ at > ObjLen(p) \/ n > ObjLen(p) - at)

\* to_read of get_audio_chunk and stream_audio: `offset + to_read` is a
\* size_t sum
ClampToRead(package, offset, want) ==
    IF AddSize(offset, want) > package.audio.size
    THEN package.audio.size - offset
    ELSE want

\* dmusicpak_get_audio_chunk with a non-null buffer of `size` bytes: the
\* return value, the bytes stored in the buffer, whether the copy read
\* outside the payload object and whether it stored more than `size` bytes
dmusicpak_get_audio_chunk(package, offset, size, g) ==
    IF package.has_audio = 0
    THEN [ret |-> -1, package |-> package, out |-> Unwritten,
          to_read |-> 0, overrun |-> FALSE, overflow |-> FALSE]
    ELSE IF offset >= package.audio.size
    THEN [ret |-> 0, package |-> package, out |-> Unwritten,
          to_read |-> 0, overrun |-> FALSE, overflow |-> FALSE]
    ELSE [ret |-> ToI64(ClampToRead(package, offset, size)),
          package |-> package,
          out |-> CopyFrom(package.audio.data, offset,
                           ClampToRead(package, offset, size), g),
          to_read |-> ClampToRead(package, offset, size),
          overrun |-> CopyFromOverruns(package.audio.data, offset,
                                       ClampToRead(package, offset, size)),
          overflow |-> ClampToRead(package, offset, size) > size]

\* const size_t chunk_size = 8192
STREAM_CHUNK_SIZE == 8192

\* dmusicpak_stream_audio up to its loop: the checks on entry
stream_audio_enter(package) ==
    IF package.has_audio = 0
    THEN [error |-> "NOT_SUPPORTED", active |-> FALSE]
    ELSE [error |-> "OK", active |-> TRUE]

\* while (offset < package->audio.size)
StreamGoesOn(package, offset) == offset < package.audio.size

\* the slice one iteration hands the sink: data + offset, to_read bytes
StreamSlice(package, offset) ==
    [offset |-> offset, len |-> ClampToRead(package, offset, STREAM_CHUNK_SIZE)]

\* if (written == 0) break
StreamStops(written) == written = 0

\* offset += written
StreamAdvance(offset, written) == AddSize(offset, written)

\* ------------------------------------------------------------------------
\* Inputs
\* ------------------------------------------------------------------------
\* byte values found past the end of a buffer
GarbageBytes == {0, 1}

\* allocation sites that are out of memory during one call
LoadFailSets == {{}, {"package"}, {"string", "lyrics", "audio", "cover"}}

\* allocation sites that are out of memory during one set_* call
SetFailSets == {{}, {"string"}, {"lyrics", "audio", "cover"}}

\* allocation sites that are out of memory during one get_* call
GetFailSets == {{}, {"string", "lyrics", "audio", "cover"}}

Meta(t, a, l, ge, y, c, d, b, sr, ch) ==
    [title |-> t, artist |-> a, album |-> l, genre |-> ge, year |-> y, comment |-> c,
     duration_ms |-> d, bitrate |-> b, sample_rate |-> sr, channels |-> ch]

MetaInputs ==
    { Meta(Ptr(<<69, 120>>), Ptr(<<65>>), Null, Null, Null, Null, 180000, 320, 44100, 2),
      Meta(Ptr(<<>>), Null, Ptr(<<76>>), Null, Ptr(<<89>>), Null, 1, 0, 0, 1),
      Meta(Ptr(<<84>>), Ptr(<<65>>), Ptr(<<76>>), Ptr(<<71>>), Ptr(<<89>>), Ptr(<<67>>),
           258, 1, 8000, 2) }

\* a lyrics payload of 2^32 - 4 bytes
LongLyricsSize == UINT32_WRAP - 4

\* an audio payload of two full stream slices and a shorter third
LongAudioSize == 2 * STREAM_CHUNK_SIZE + 3

LyricsInputs ==
    { [format |-> 1, data |-> Ptr(<<10, 11>>), size |-> 2],
      [format |-> 4, data |-> Null, size |-> 0],
      [format |-> 2, data |-> Null, size |-> 2],
      [format |-> 3, data |-> LongPtr(<<10>>, LongLyricsSize - 1), size |-> LongLyricsSize] }

AudioInputs ==
    { [format |-> 1, source_filename |-> Ptr(<<97>>), data |-> Ptr(<<20, 21, 22>>), size |-> 3],
      [format |-> 3, source_filename |-> Null, data |-> Null, size |-> 0],
      [format |-> 2, source_filename |-> Ptr(<<>>), data |-> Ptr(<<0, 255>>), size |-> 2],
      [format |-> 1, source_filename |-> Ptr(<<97>>), data |-> Null, size |-> 2],
      [format |-> 2, source_filename |-> Null,
       data |-> LongPtr(<<20, 21>>, LongAudioSize - 2), size |-> LongAudioSize] }

\* the (offset, size) arguments of get_audio_chunk calls
ChunkOffsets == {0, 1, 3}
ChunkSizes == {0, 2, SIZE_MAX_ENC}

\* what a sink may answer to a slice of n bytes: nothing consumed, one byte
\* consumed, all of it consumed
SinkAnswers(n) == {0, 1, n}

CoverInputs ==
    { [format |-> 1, data |-> Ptr(<<30, 31>>), size |-> 2, width |-> 300, height |-> 200],
      [format |-> 2, data |-> Null, size |-> 0, width |-> 0, height |-> 0] }

\* a chunk as an input lays it out: the type byte, the length it declares
\* and the body bytes that follow
Raw(t, n, b) == [type |-> t, length |-> n, body |-> b]
RawBytes(c) == << c.type >> \o write_uint32_le(c.length) \o c.body

LyricsBody(f, payload) == write_uint32_le(f) \o payload
AudioBody(name, payload) == write_string(name) \o payload
CoverBody(f, w, h, payload) ==
    write_uint32_le(f) \o write_uint32_le(w) \o write_uint32_le(h) \o payload
MetaBody == write_metadata_chunk(
                Meta(Ptr(<<84>>), Null, Null, Null, Null, Null, 258, 1, 8000, 2))

\* well-formed chunks
GoodChunks ==
    { Raw(CHUNK_METADATA, Len(MetaBody), MetaBody),
      Raw(CHUNK_LYRICS, 6, LyricsBody(1, <<10, 11>>)),
      Raw(CHUNK_AUDIO, 6, AudioBody(Ptr(<<97>>), <<20>>)),
      Raw(CHUNK_COVER, 13, CoverBody(1, 2, 3, <<30>>)) }

\* chunks that lie inside the buffer but are too short for their layout
ShortChunks ==
    { Raw(CHUNK_LYRICS, 0, << >>),
      Raw(CHUNK_COVER, 8, write_uint32_le(1) \o write_uint32_le(2)),
      Raw(CHUNK_AUDIO, 5, write_uint32_le(5) \o <<97>>),
      Raw(CHUNK_METADATA, 4, write_uint32_le(0)) }

\* chunks that declare more bytes than follow them
LongChunks ==
    { Raw(CHUNK_LYRICS, 9, LyricsBody(1, <<10>>)),
      Raw(127, UINT32_WRAP - 1, << >>) }

\* chunks of a type the format does not define
UnknownChunks == { Raw(127, 3, <<1, 2, 3>>), Raw(0, 0, << >>) }

RawChunks == GoodChunks \cup ShortChunks \cup LongChunks \cup UnknownChunks

\* headers of hand-built inputs: magic, version, chunk_count
Header(magic, version, count) ==
    magic \o write_uint32_le(version) \o write_uint32_le(count)

HeaderInputs ==
    { Header(DMUSICPAK_MAGIC, DMUSICPAK_VERSION, n) : n \in {2, 5} }
      \cup { Header(<<68, 77, 80, 88>>, DMUSICPAK_VERSION, 1),
             Header(DMUSICPAK_MAGIC, 2, 1),
             Header(DMUSICPAK_MAGIC, 0, 1) }

\* ------------------------------------------------------------------------
\* State
\* ------------------------------------------------------------------------
VARIABLES
    pkg,        \* the Package the producer fills with set_*
    rc,         \* the error code of the last set_* call
    saved,      \* the outcome of the last save_memory(pkg)
    input,      \* the byte buffer handed to load_memory
    origin,     \* how input was made: from a saved buffer or chunk by chunk
    loaded,     \* the outcome of the last load_memory(input)
    call,       \* the last call made on pkg: its arguments, its results and
                \* the Package it found; a stream_audio call in progress
    touched,    \* the sections a set_* call was ever made for
    oom         \* an allocation site was out of memory during a set_* call

vars == << pkg, rc, saved, input, origin, loaded, call, touched, oom >>

NoSecond == [done |-> FALSE, crashed |-> FALSE, error |-> "OK", buffer |-> << >>,
             size |-> 0]
NotSaved ==
    [done |-> FALSE, crashed |-> FALSE, error |-> "OK", buffer |-> << >>,
     size |-> 0, capacity |-> 0, overrun |-> FALSE, fail |-> {}, second |-> NoSecond]
NotLoaded ==
    [done |-> FALSE, crashed |-> FALSE, null |-> TRUE, package |-> dmusicpak_create,
     hi |-> 0, error |-> "NONE", g |-> 0, fail |-> {}]
NoOrigin == [kind |-> "none", chunks |-> << >>, cut |-> FALSE]

\* a finished call: op(arg) under the allocation failures fail found the
\* Package before, returned error / ret and left the caller's struct as out
Call(op, arg, fail, before, error, ret, out) ==
    [op |-> op, arg |-> arg, fail |-> fail, before |-> before, error |-> error,
     ret |-> ret, out |-> out, crashed |-> FALSE, overrun |-> FALSE,
     overflow |-> FALSE, active |-> FALSE, offset |-> 0, slices |-> << >>]
NoCall == Call("none", << >>, {}, dmusicpak_create, "OK", 0, Unwritten)

Init ==
    /\ pkg = dmusicpak_create
    /\ rc = "OK"
    /\ saved = NotSaved
    /\ input = << >>
    /\ origin = NoOrigin
    /\ loaded = NotLoaded
    /\ call = NoCall
    /\ touched = {}
    /\ oom = FALSE

\* ------------------------------------------------------------------------
\* Operations
\* ------------------------------------------------------------------------
\* the producer is still filling pkg and no stream_audio call is under way
Building == origin.kind = "none" /\ ~saved.done /\ ~call.active

\* allocation failures hit one set_* call of a run: after it the producer
\* only reads
MemoryPressure == oom

ApplySet(op, section, arg, fail, r) ==
    /\ pkg' = r.package
    /\ rc' = r.error
    /\ call' = Call(op, arg, fail, pkg, r.error, 0, Unwritten)
    /\ touched' = touched \cup {section}
    /\ oom' = (fail # {})
    /\ UNCHANGED << saved, input, origin, loaded >>

SetMetadata ==
    /\ Building
    /\ ~MemoryPressure
    /\ \E m \in MetaInputs, fail \in SetFailSets :
          ApplySet("set_metadata", CHUNK_METADATA, m, fail,
                   dmusicpak_set_metadata(pkg, m, fail))

SetLyrics ==
    /\ Building
    /\ ~MemoryPressure
    /\ \E l \in LyricsInputs, fail \in SetFailSets :
          ApplySet("set_lyrics", CHUNK_LYRICS, l, fail,
                   dmusicpak_set_lyrics(pkg, l, fail))

SetAudio ==
    /\ Building
    /\ ~MemoryPressure
    /\ \E a \in AudioInputs, fail \in SetFailSets :
          ApplySet("set_audio", CHUNK_AUDIO, a, fail,
                   dmusicpak_set_audio(pkg, a, fail))

SetCover ==
    /\ Building
    /\ ~MemoryPressure
    /\ \E c \in CoverInputs, fail \in SetFailSets :
          ApplySet("set_cover", CHUNK_COVER, c, fail,
                   dmusicpak_set_cover(pkg, c, fail))

ApplyGet(op, fail, r) ==
    /\ pkg' = r.package
    /\ call' = Call(op, << >>, fail, pkg, r.error, 0, r.out)
    /\ UNCHANGED << rc, saved, input, origin, loaded, touched, oom >>

GetMetadata ==
    /\ Building
    /\ \E fail \in GetFailSets :
          ApplyGet("get_metadata", fail, dmusicpak_get_metadata(pkg, fail))

GetLyrics ==
    /\ Building
    /\ \E fail \in GetFailSets :
          ApplyGet("get_lyrics", fail, dmusicpak_get_lyrics(pkg, fail))

GetAudio ==
    /\ Building
    /\ \E fail \in GetFailSets :
          ApplyGet("get_audio", fail, dmusicpak_get_audio(pkg, fail))

GetCover ==
    /\ Building
    /\ \E fail \in GetFailSets :
          ApplyGet("get_cover", fail, dmusicpak_get_cover(pkg, fail))

\* get_audio_chunk(pkg, offset, size, buffer).  When the copy leaves the
\* payload object or the caller's buffer the call either faults or goes on.
GetAudioChunk ==
    /\ Building
    /\ \E offset \in ChunkOffsets, size \in ChunkSizes, g \in GarbageBytes :
       \E r \in {dmusicpak_get_audio_chunk(pkg, offset, size, g)}, crash \in BOOLEAN :
          /\ crash => (r.overrun \/ r.overflow)
          /\ pkg' = r.package
          /\ call' = [Call("get_audio_chunk", << offset, size >>, {}, pkg, "OK",
                           r.ret, r.out)
                        EXCEPT !.crashed = crash, !.overrun = r.overrun,
                               !.overflow = r.overflow]
    /\ UNCHANGED << rc, saved, input, origin, loaded, touched, oom >>

\* stream_audio(pkg, sink, userdata) is entered
StreamEnter ==
    /\ Building
    /\ \E r \in {stream_audio_enter(pkg)} :
          call' = [Call("stream_audio", << >>, {}, pkg, r.error, 0, Unwritten)
                     EXCEPT !.active = r.active]
    /\ UNCHANGED << pkg, rc, saved, input, origin, loaded, touched, oom >>

\* one iteration of its loop: the sink is handed a slice and answers
StreamSink ==
    /\ call.op = "stream_audio"
    /\ call.active
    /\ StreamGoesOn(pkg, call.offset)
    /\ Len(call.slices) < MaxSinkCalls
    /\ \E slice \in {StreamSlice(pkg, call.offset)} :
       \E written \in SinkAnswers(slice.len) :
          call' = [call EXCEPT
                     !.slices = Append(@, [offset |-> slice.offset, len |-> slice.len,
                                           written |-> written]),
                     !.offset = StreamAdvance(@, written),
                     !.active = ~StreamStops(written)]
    /\ UNCHANGED << pkg, rc, saved, input, origin, loaded, touched, oom >>

\* the loop ends at the end of the payload and the call returns
StreamReturn ==
    /\ call.op = "stream_audio"
    /\ call.active
    /\ ~StreamGoesOn(pkg, call.offset)
    /\ call' = [call EXCEPT !.active = FALSE]
    /\ UNCHANGED << pkg, rc, saved, input, origin, loaded, touched, oom >>

\* save_memory(pkg, &buffer, &size); a buffer it returns becomes the input
\* when the model holds all of its bytes.
\* When a memcpy runs past a section buffer the call either faults or goes
\* on with the bytes it found there.
SaveMemory ==
    /\ origin.kind = "none"
    /\ ~saved.done
    /\ ~call.active
    /\ ~MemoryPressure
    /\ \E g \in GarbageBytes, fail \in {{}, {"buffer"}} :
          \E r \in {dmusicpak_save_memory(pkg, g, fail)},
             crash \in BOOLEAN :
              /\ crash => r.overrun
              /\ saved' = [done |-> TRUE, crashed |-> crash, error |-> r.error,
                           buffer |-> IF crash THEN << >> ELSE r.buffer,
                           size |-> IF crash THEN 0 ELSE r.size,
                           capacity |-> r.capacity, overrun |-> r.overrun, fail |-> fail,
                           second |-> NoSecond]
              /\ pkg' = r.package
              /\ call' = Call("save_memory", << >>, fail, pkg, r.error, 0, Unwritten)
              /\ IF crash \/ r.error # "OK" \/ r.size # Len(r.buffer)
                 THEN UNCHANGED << input, origin >>
                 ELSE /\ input' = r.buffer
                      /\ origin' = [kind |-> "saved", chunks |-> << >>, cut |-> FALSE]
    /\ UNCHANGED << rc, loaded, touched, oom >>

\* save_memory(pkg, &buffer2, &size2) once more, pkg untouched since the
\* first call
SaveAgain ==
    /\ origin.kind = "saved"
    /\ ~origin.cut
    /\ loaded.done
    /\ ~saved.second.done
    /\ \E g \in GarbageBytes :
          \E r \in {dmusicpak_save_memory(pkg, g, {})},
             crash \in BOOLEAN :
              /\ crash => r.overrun
              /\ saved' = [saved EXCEPT !.second =
                              [done |-> TRUE, crashed |-> crash, error |-> r.error,
                               buffer |-> IF crash THEN << >> ELSE r.buffer,
                               size |-> IF crash THEN 0 ELSE r.size]]
              /\ pkg' = r.package
              /\ call' = Call("save_memory", << >>, {}, pkg, r.error, 0, Unwritten)
    /\ UNCHANGED << rc, input, origin, loaded, touched, oom >>

\* the caller keeps only the first k bytes of a saved buffer
Truncate ==
    /\ origin.kind = "saved"
    /\ ~origin.cut
    /\ ~loaded.done
    /\ \E k \in 0..(Len(input) - 1) :
          /\ input' = SubSeq(input, 1, k)
          /\ origin' = [origin EXCEPT !.cut = TRUE]
    /\ UNCHANGED << pkg, rc, saved, loaded, call, touched, oom >>

\* a consumer starts a hand-built input with a header
StartInput ==
    /\ origin.kind = "none"
    /\ pkg = dmusicpak_create
    /\ call = NoCall
    /\ ~saved.done
    /\ \E h \in HeaderInputs :
          /\ input' = h
          /\ origin' = [kind |-> "crafted", chunks |-> << >>, cut |-> FALSE]
    /\ UNCHANGED << pkg, rc, saved, loaded, call, touched, oom >>

\* ... and appends one chunk to it
AppendChunk ==
    /\ origin.kind = "crafted"
    /\ ~loaded.done
    /\ Len(origin.chunks) < MaxChunks
    /\ HeaderOk(input) \/ Len(origin.chunks) < 1
    /\ \E c \in RawChunks :
          /\ input' = input \o RawBytes(c)
          /\ origin' = [origin EXCEPT !.chunks = Append(@, c)]
    /\ UNCHANGED << pkg, rc, saved, loaded, call, touched, oom >>

\* load_memory(input, Len(input)).  When it read past the end of the input
\* the call either faults or goes on with the bytes it found there.
LoadMemory ==
    /\ origin.kind # "none"
    /\ ~loaded.done
    /\ \E g \in GarbageBytes, fail \in LoadFailSets :
          \E r \in {dmusicpak_load_memory(input, g, fail)},
             crash \in BOOLEAN :
              /\ crash => r.hi > Len(input)
              /\ loaded' = [done |-> TRUE, crashed |-> crash,
                            null |-> IF crash THEN TRUE ELSE r.null,
                            package |-> IF crash THEN dmusicpak_create ELSE r.package,
                            hi |-> r.hi, error |-> r.error, g |-> g, fail |-> fail]
    /\ UNCHANGED << pkg, rc, saved, input, origin, call, touched, oom >>

Next ==
    \/ SetMetadata
    \/ SetLyrics
    \/ SetAudio
    \/ SetCover
    \/ GetMetadata
    \/ GetLyrics
    \/ GetAudio
    \/ GetCover
    \/ GetAudioChunk
    \/ StreamEnter
    \/ StreamSink
    \/ StreamReturn
    \/ SaveMemory
    \/ SaveAgain
    \/ Truncate
    \/ StartInput
    \/ AppendChunk
    \/ LoadMemory

Spec == Init /\ [][Next]_vars

\* ------------------------------------------------------------------------
\* Vocabulary of the properties
\* ------------------------------------------------------------------------
\* the header as a reader of the format states it: 12 bytes, "DMPK", version 1
HeaderGood(data) ==
    /\ Len(data) >= 12
    /\ SubSeq(data, 1, 4) = <<68, 77, 80, 75>>
    /\ SubSeq(data, 5, 8) = <<1, 0, 0, 0>>

\* the chunk_count field of a buffer that holds a whole header
CountField(data) == read_uint32_le(data, 8, 0)

RECURSIVE Frames(_, _)
\* the chunks a buffer frames from offset off on: for each whole 5-byte chunk
\* header its type, its start and the end its length declares
Frames(data, off) ==
    IF off + 5 > Len(data) THEN << >>
    ELSE LET n == read_uint32_le(data, off + 1, 0)
         IN  << [type |-> data[off + 1], start |-> off, end |-> off + 5 + n] >>
               \o Frames(data, off + 5 + n)

\* section s (a chunk type 1..4) is present in a Package
Has(package, s) ==
    CASE s = 1 -> package.has_metadata # 0
      [] s = 2 -> package.has_lyrics # 0
      [] s = 3 -> package.has_audio # 0
      [] s = 4 -> package.has_cover # 0

Present(package) == { s \in 1..4 : Has(package, s) }

\* what the get_* accessors can tell of a Package: which sections are
\* present and the contents of those that are
View(package) ==
    [present |-> Present(package),
     metadata |-> IF Has(package, 1) THEN package.metadata ELSE ZeroMetadata,
     lyrics |-> IF Has(package, 2) THEN package.lyrics ELSE ZeroLyrics,
     audio |-> IF Has(package, 3) THEN package.audio ELSE ZeroAudio,
     cover |-> IF Has(package, 4) THEN package.cover ELSE ZeroCover]

\* the text of an optional string: an absent string and an empty one are
\* the same text, as the format encodes both with length 0
Text(str) == IF str.null THEN << >> ELSE str.bytes

\* the payload bytes a section holds
Payload(section) == IF section.data.null THEN << >> ELSE section.data.bytes

\* the contents of a Package as the data model counts them: for each present
\* section its texts, numbers, format tag and payload bytes
Content(package) ==
    [present |-> Present(package),
     metadata |-> IF Has(package, 1)
                  THEN [package.metadata EXCEPT !.title = Text(@), !.artist = Text(@),
                                                !.album = Text(@), !.genre = Text(@),
                                                !.year = Text(@), !.comment = Text(@)]
                  ELSE << >>,
     lyrics |-> IF Has(package, 2)
                THEN [format |-> package.lyrics.format, size |-> package.lyrics.size,
                      payload |-> Payload(package.lyrics)]
                ELSE << >>,
     audio |-> IF Has(package, 3)
               THEN [format |-> package.audio.format, size |-> package.audio.size,
                     source_filename |-> Text(package.audio.source_filename),
                     payload |-> Payload(package.audio)]
               ELSE << >>,
     cover |-> IF Has(package, 4)
               THEN [format |-> package.cover.format, size |-> package.cover.size,
                     width |-> package.cover.width, height |-> package.cover.height,
                     payload |-> Payload(package.cover)]
               ELSE << >>]

\* the input is the untouched output of save_memory(pkg), every section
\* buffer of pkg holding the bytes its size field counts
InputIsSaved == origin.kind = "saved" /\ ~saved.overrun

\* ------------------------------------------------------------------------
\* C1  load_memory never reads a byte of its input at an index at or past
\*     the input's length, whatever the input holds.
\* ------------------------------------------------------------------------
C1_NoReadPastEnd == loaded.done => loaded.hi <= Len(input)

\* ------------------------------------------------------------------------
\* C2  For B = save_memory(P) and 12 <= k < Len(B), load_memory(B[0:k])
\*     reads only indices below k and returns a Package that holds exactly
\*     the sections whose whole chunk (header and body) lies inside B[0:k].
\*     (The prefixes shorter than the header are the case of C4.)
\* ------------------------------------------------------------------------
C2_TruncationSafe ==
    (loaded.done /\ InputIsSaved /\ origin.cut /\ loaded.fail = {} /\ Len(input) >= 12)
    => /\ loaded.hi <= Len(input)
       /\ ~loaded.null
       /\ Present(loaded.package) =
            { s \in 1..4 : \E i \in DOMAIN Frames(saved.buffer, 12) :
                              /\ Frames(saved.buffer, 12)[i].type = s
                              /\ Frames(saved.buffer, 12)[i].end <= Len(input) }

\* ------------------------------------------------------------------------
\* C3  load_memory(save_memory(P)) has every section of P present again with
\*     all its fields and payload bytes, and every absent section absent.
\* ------------------------------------------------------------------------
C3_RoundTrip ==
    (loaded.done /\ InputIsSaved /\ ~origin.cut /\ loaded.fail = {})
    => /\ ~loaded.null
       /\ Content(loaded.package) = Content(pkg)

\* ------------------------------------------------------------------------
\* C4  load_memory returns no Package and decodes no section when the input
\*     is shorter than 12 bytes, or does not start with "DMPK", or its
\*     version field is not 1.
\* ------------------------------------------------------------------------
C4_HeaderRejected ==
    (loaded.done /\ ~HeaderGood(input))
    => /\ loaded.null
       /\ ~loaded.crashed
       /\ Present(loaded.package) = {}
       /\ loaded.hi <= 8

C4_Witness ==
    /\ loaded.done
    /\ Len(input) > 12
    /\ SubSeq(input, 1, 4) = <<68, 77, 80, 75>>
    /\ SubSeq(input, 5, 8) = <<2, 0, 0, 0>>
    /\ loaded.null

\* ------------------------------------------------------------------------
\* C5  (as stated) a header-level failure reaches the caller as the error
\*     kind InvalidFormat, with no Package.
\* ------------------------------------------------------------------------
C5_InvalidFormat ==
    (loaded.done /\ ~HeaderGood(input))
    => loaded.null /\ loaded.error = "INVALID_FORMAT"

\* C5  (amended) a header-level failure reaches the caller as a null Package
\*     pointer and nothing else: load_memory hands back no error kind.
C5_NullPointerOnly ==
    (loaded.done /\ ~HeaderGood(input))
    => loaded.null /\ loaded.error = "NONE"

C5_Witness ==
    /\ loaded.done
    /\ Len(input) >= 12
    /\ SubSeq(input, 1, 4) # <<68, 77, 80, 75>>
    /\ loaded.null
    /\ loaded.error = "NONE"

\* ------------------------------------------------------------------------
\* C6  For every input that passes the header checks load_memory returns a
\*     Package, never a null or absent result (the Package itself being
\*     allocated).
\* ------------------------------------------------------------------------
C6_AlwaysPackage ==
    (loaded.done /\ HeaderGood(input) /\ "package" \notin loaded.fail)
    => ~loaded.crashed /\ ~loaded.null

\* ------------------------------------------------------------------------
\* the decoder meets, as one of its first chunk_count chunks, a chunk whose
\* declared length runs past the end of the input, and returns
\* ------------------------------------------------------------------------
OverlongAt(j) ==
    /\ j \in DOMAIN Frames(input, 12)
    /\ j <= CountField(input)
    /\ Frames(input, 12)[j].end > Len(input)

MeetsOverlong ==
    /\ loaded.done /\ ~loaded.crashed
    /\ HeaderGood(input)
    /\ "package" \notin loaded.fail
    /\ \E j \in DOMAIN Frames(input, 12) : OverlongAt(j)

\* the input with its chunk_count field set to n
WithCount(data, n) == SubSeq(data, 1, 8) \o write_uint32_le(n) \o SubSeq(data, 13, Len(data))

\* ------------------------------------------------------------------------
\* C7  (as stated) a chunk whose declared length runs past the end of the
\*     buffer fails the whole decode: no Package is returned.
\* ------------------------------------------------------------------------
C7_WholeDecodeFails == MeetsOverlong => loaded.null

\* C7  (amended) at a chunk whose declared length runs past the end of the
\*     buffer the decoder stops and returns the Package the chunks before it
\*     built: the Package the same buffer gives when its chunk_count ends
\*     just before that chunk.
C7_StopsAtOverlong ==
    MeetsOverlong
    => /\ ~loaded.null
       /\ \A j \in DOMAIN Frames(input, 12) :
             OverlongAt(j)
             => loaded.package =
                  dmusicpak_load_memory(WithCount(input, j - 1), loaded.g, loaded.fail).package

C7_Witness ==
    /\ MeetsOverlong
    /\ OverlongAt(2)
    /\ ~loaded.null
    /\ Present(loaded.package) = {CHUNK_LYRICS}

\* ------------------------------------------------------------------------
\* hand-built inputs: where chunk j starts and ends, and whether the decoder
\* arrives at its start (every chunk before it declares the length it has,
\* and the header counts it in)
\* ------------------------------------------------------------------------
RECURSIVE ChunkStart(_)
ChunkStart(j) ==
    IF j = 1 THEN 12 ELSE ChunkStart(j - 1) + 5 + Len(origin.chunks[j - 1].body)

ChunkEnd(j) == ChunkStart(j) + 5 + Len(origin.chunks[j].body)

Reached(j) ==
    /\ origin.kind = "crafted"
    /\ j \in DOMAIN origin.chunks
    /\ HeaderGood(input)
    /\ j <= CountField(input)
    /\ \A i \in 1..(j - 1) : origin.chunks[i].length = Len(origin.chunks[i].body)

\* the input without the bytes of chunk j, its header counting one chunk less
Without(j) ==
    WithCount(SubSeq(input, 1, ChunkStart(j)) \o SubSeq(input, ChunkEnd(j) + 1, Len(input)),
              CountField(input) - 1)

\* ------------------------------------------------------------------------
\* C8  A chunk that lies inside the buffer but is too short for its section
\*     layout leaves that section absent, and all other chunks decode as if
\*     the bad chunk were not there.
\* ------------------------------------------------------------------------
C8_BadBodyAbsorbed ==
    \A j \in DOMAIN origin.chunks :
       (loaded.done /\ loaded.fail = {} /\ Reached(j) /\ origin.chunks[j] \in ShortChunks)
       => /\ ~loaded.crashed
          /\ ~loaded.null
          /\ (\A i \in DOMAIN origin.chunks :
                 i # j => origin.chunks[i].type # origin.chunks[j].type)
             => ~Has(loaded.package, origin.chunks[j].type)
          /\ View(loaded.package) =
               View(dmusicpak_load_memory(Without(j), loaded.g, loaded.fail).package)

\* ------------------------------------------------------------------------
\* C9  A chunk of a type other than 1..4 whose declared length fits in the
\*     buffer is skipped: it sets no section, none of its body bytes is
\*     read, and the chunks after it decode exactly as they do in the buffer
\*     that lacks the unknown chunk.
\* ------------------------------------------------------------------------
UnknownAt(j) ==
    /\ loaded.done /\ ~loaded.crashed /\ ~loaded.null
    /\ Reached(j)
    /\ origin.chunks[j].type \notin 1..4
    /\ origin.chunks[j].length = Len(origin.chunks[j].body)

\* the decoder's state after the first n chunks of the input
After(n) ==
    ReadChunks(input, n, 0, 12, dmusicpak_create, 12, loaded.g, loaded.fail)

C9_UnknownSkipped ==
    \A j \in DOMAIN origin.chunks :
       UnknownAt(j)
       => /\ After(j).package = After(j - 1).package
          /\ After(j).hi <= Max(After(j - 1).hi, ChunkStart(j) + 5)
          /\ loaded.package =
               ReadChunks(Without(j), CountField(input) - 1, j - 1, ChunkStart(j),
                          After(j - 1).package, After(j - 1).hi,
                          loaded.g, loaded.fail).package

C9_Witness ==
    /\ UnknownAt(1)
    /\ Len(origin.chunks) = 2
    /\ origin.chunks[1] = Raw(127, 3, <<1, 2, 3>>)
    /\ origin.chunks[2].type = CHUNK_LYRICS
    /\ Present(loaded.package) = {CHUNK_LYRICS}
    /\ loaded.package.lyrics.data = Ptr(<<10, 11>>)

\* ------------------------------------------------------------------------
\* C10 save_memory writes a header whose chunk_count is the number of present
\*     sections, then exactly one chunk per present section in the order
\*     Metadata(1), Lyrics(2), Audio(3), Cover(4), and nothing else.
\* ------------------------------------------------------------------------
\* the chunk types a buffer frames, in order
FrameTypes(data) == [i \in DOMAIN Frames(data, 12) |-> Frames(data, 12)[i].type]

\* the end of the last chunk a buffer frames
FramesEnd(data) ==
    IF Frames(data, 12) = << >> THEN 12 ELSE Frames(data, 12)[Len(Frames(data, 12))].end

IsPresentType(s) == Has(pkg, s)

Saved == saved.done /\ ~saved.crashed /\ saved.error = "OK" /\ saved.size = Len(saved.buffer)

C10_FixedOrder ==
    Saved
    => /\ HeaderGood(saved.buffer)
       /\ CountField(saved.buffer) = Cardinality(Present(pkg))
       /\ FrameTypes(saved.buffer) = SelectSeq(<<1, 2, 3, 4>>, IsPresentType)
       /\ FramesEnd(saved.buffer) = Len(saved.buffer)

C10_Witness ==
    /\ Saved
    /\ Present(pkg) = {1, 2, 3, 4}
    /\ FrameTypes(saved.buffer) = <<1, 2, 3, 4>>

\* ------------------------------------------------------------------------
\* C11 save_memory allocates exactly the bytes it returns: the malloc'ed
\*     size equals the returned length, which is 12 header bytes + 5 bytes
\*     per present chunk + the chunk bodies.
\* ------------------------------------------------------------------------
\* the bytes of the chunk bodies a buffer frames
RECURSIVE BodyBytes(_, _)
BodyBytes(frames, i) ==
    IF i > Len(frames) THEN 0
    ELSE (frames[i].end - frames[i].start - 5) + BodyBytes(frames, i + 1)

C11_ExactAllocation ==
    Saved
    => /\ saved.capacity = saved.size
       /\ saved.size = 12 + 5 * Cardinality(Present(pkg))
                          + BodyBytes(Frames(saved.buffer, 12), 1)

\* ------------------------------------------------------------------------
\* C12 In every chunk save_memory writes, the u32 length field equals the
\*     number of body bytes written after it, whatever size_t payload sizes
\*     the Package holds.
\* ------------------------------------------------------------------------
\* save_memory returned a buffer
SavedOk == saved.done /\ ~saved.crashed /\ saved.error = "OK"

\* the bytes of saved.buffer that belong to the chunk of section s
HeldChunk(s) ==
    CASE s = 1 -> WriteMetadata(pkg)
      [] s = 2 -> WriteLyrics(pkg, 0)
      [] s = 3 -> WriteAudio(pkg, 0)
      [] s = 4 -> WriteCover(pkg, 0)

\* where in saved.buffer the chunk of section s starts
RECURSIVE HeldStart(_)
HeldStart(s) == IF s = 1 THEN 12 ELSE HeldStart(s - 1) + Len(HeldChunk(s - 1))

\* the length field of the chunk of section s
LengthField(s) == read_uint32_le(saved.buffer, HeldStart(s) + 1, 0)

\* the body bytes the writer put after that field: the fixed fields and
\* strings of the section and the size bytes of its payload
BodyWritten(s) ==
    CASE s = 1 -> Len(write_metadata_chunk(pkg.metadata))
      [] s = 2 -> AddSize(4, pkg.lyrics.size)
      [] s = 3 -> AddSize(Len(write_string(pkg.audio.source_filename)), pkg.audio.size)
      [] s = 4 -> AddSize(12, pkg.cover.size)

C12_LengthFieldExact ==
    SavedOk => \A s \in Present(pkg) : LengthField(s) = BodyWritten(s)

\* ------------------------------------------------------------------------
\* C13 Two save_memory calls on the same unchanged Package return outputs
\*     of equal length with identical bytes.
\* ------------------------------------------------------------------------
C13_EncodeTwiceSame ==
    (SavedOk /\ saved.second.done /\ ~saved.second.crashed)
    => /\ saved.second.error = "OK"
       /\ saved.second.size = saved.size
       /\ saved.second.buffer = saved.buffer

\* ------------------------------------------------------------------------
\* C14 save_memory, get_metadata, get_lyrics, get_audio, get_cover,
\*     get_audio_chunk and stream_audio leave the Package as they found
\*     it: every field, payload and presence flag.
\* ------------------------------------------------------------------------
ReadOnlyOps ==
    {"save_memory", "get_metadata", "get_lyrics", "get_audio", "get_cover",
     "get_audio_chunk", "stream_audio"}

PayloadSlice(section, from, n) ==
    IF from >= Len(Payload(section)) THEN << >>
    ELSE SubSeq(Payload(section), from + 1, Min(from + n, Len(Payload(section))))

C15_ChunkClamped ==
    call.op = "get_audio_chunk"
    => LET offset == call.arg[1]
           size == call.arg[2]
           L == pkg.audio.size
       IN  /\ ~call.crashed
           /\ IF ~Has(pkg, CHUNK_AUDIO) THEN call.ret = -1
              ELSE IF offset >= L THEN call.ret = 0
              ELSE /\ call.ret = Min(size, L - offset)
                   /\ call.out = PayloadSlice(pkg.audio, offset, Min(size, L - offset))

\* ------------------------------------------------------------------------
\* C16 When the sink consumes every slice in full, stream_audio hands it
\*     consecutive, non-overlapping slices of the audio payload in
\*     increasing offset order, every slice but the last of 8192 bytes and
\*     the last of 1..8192 bytes, which together are the whole payload;
\*     then it returns OK.
\* ------------------------------------------------------------------------
Streaming == call.op = "stream_audio" /\ Has(pkg, CHUNK_AUDIO)

\* stream_audio returned
StreamDone == Streaming /\ ~call.active

\* the sink consumed every slice handed to it so far in full
AllConsumed == \A i \in DOMAIN call.slices : call.slices[i].written = call.slices[i].len

\* slice i lies inside the bytes the Package holds for the audio payload
SliceInPayload(i) ==
    /\ ~pkg.audio.data.null
    /\ call.slices[i].offset + call.slices[i].len <= ObjLen(pkg.audio.data)

\* slice i starts where slice i - 1 ended, the first at 0
SliceFollows(i) ==
    call.slices[i].offset =
        IF i = 1 THEN 0 ELSE call.slices[i - 1].offset + call.slices[i - 1].len

\* the bytes the slices cover when each follows the one before
SlicesEnd ==
    IF call.slices = << >> THEN 0
    ELSE call.slices[Len(call.slices)].offset + call.slices[Len(call.slices)].len

C16_SlicesCoverPayload ==
    (Streaming /\ AllConsumed)
    => /\ \A i \in DOMAIN call.slices :
             /\ SliceFollows(i)
             /\ SliceInPayload(i)
             /\ call.slices[i].len >= 1
             /\ call.slices[i].len <= 8192
             /\ i < Len(call.slices) => call.slices[i].len = 8192
       /\ ~call.active => /\ call.error = "OK"
                          /\ SlicesEnd = ObjLen(pkg.audio.data)

\* ------------------------------------------------------------------------
\* C17 Once the sink reports 0 bytes consumed, stream_audio calls it no
\*     more and returns OK; the slices handed over before that call are a
\*     prefix of the payload.
\* ------------------------------------------------------------------------
\* slice i starts at the first byte the sink has not consumed yet
SliceResumes(i) ==
    call.slices[i].offset =
        IF i = 1 THEN 0 ELSE call.slices[i - 1].offset + call.slices[i - 1].written

C17_StopsOnZero ==
    Streaming
    => \A i \in DOMAIN call.slices :
           call.slices[i].written = 0
           => /\ i = Len(call.slices)
              /\ ~call.active
              /\ call.error = "OK"
              /\ \A j \in 1..(i - 1) : SliceResumes(j) /\ SliceInPayload(j)

\* ------------------------------------------------------------------------
\* C18 Each set operation fully replaces its section: after set_X(a) and
\*     then a successful set_X(b) on the same Package, get_X returns
\*     exactly b's fields and payload and nothing of a, also when b has
\*     absent fields or an empty payload.
\* ------------------------------------------------------------------------
\* the payload pointer get_X hands back for a payload given as (data, size)
PayloadOf(data, size) ==
    IF data.null \/ size = 0 THEN Null ELSE CopyObject(data, size)

\* the last call was a successful set_X on a Package that held section X
Replaced(op, section) ==
    call.op = op /\ call.error = "OK" /\ Has(call.before, section)

C18_SetReplaces ==
    /\ Replaced("set_metadata", CHUNK_METADATA)
       => dmusicpak_get_metadata(pkg, {}).out = call.arg
    /\ Replaced("set_lyrics", CHUNK_LYRICS)
       => dmusicpak_get_lyrics(pkg, {}).out =
              [call.arg EXCEPT !.data = PayloadOf(call.arg.data, call.arg.size)]
    /\ Replaced("set_audio", CHUNK_AUDIO)
       => dmusicpak_get_audio(pkg, {}).out =
              [call.arg EXCEPT !.data = PayloadOf(call.arg.data, call.arg.size)]
    /\ Replaced("set_cover", CHUNK_COVER)
       => dmusicpak_get_cover(pkg, {}).out =
              [call.arg EXCEPT !.data = PayloadOf(call.arg.data, call.arg.size)]

\* ------------------------------------------------------------------------
\* C19 When a memory allocation fails inside set_metadata, set_lyrics,
\*     set_audio or set_cover, the call returns MemoryAlloc and leaves the
\*     Package exactly as it was before the call.
\* ------------------------------------------------------------------------
SetOps == {"set_metadata", "set_lyrics", "set_audio", "set_cover"}

\* the strings the last set_* call hands to str_dup
DupStrings ==
    IF call.op = "set_metadata"
    THEN { call.arg[MetadataStrings[i]] : i \in DOMAIN MetadataStrings }
    ELSE IF call.op = "set_audio" THEN { call.arg.source_filename }
    ELSE {}

\* the allocation site of the payload copy of the last set_* call
PayloadSite ==
    IF call.op = "set_lyrics" THEN "lyrics"
    ELSE IF call.op = "set_audio" THEN "audio" ELSE "cover"

\* an allocation the last set_* call asked for failed
AllocationFailed ==
    /\ call.op \in SetOps
    /\ \/ \E s \in DupStrings :
             ~s.null /\ ~MallocOk(strlen(s) + 1, "string", call.fail)
       \/ /\ call.op # "set_metadata"
          /\ ~call.arg.data.null
          /\ call.arg.size > 0
          /\ ~MallocOk(call.arg.size, PayloadSite, call.fail)

C19_FailedSetAtomic ==
    AllocationFailed => call.error = "MEMORY_ALLOC" /\ pkg = call.before

\* ------------------------------------------------------------------------
\* C20 A newly created Package has all four sections absent, and while a
\*     section has been neither set nor decoded, get_metadata, get_lyrics,
\*     get_audio, get_cover for it and stream_audio return NotSupported
\*     and write no result.
\* ------------------------------------------------------------------------
\* the section a read call is about
SectionOf(op) ==
    CASE op = "get_metadata" -> CHUNK_METADATA
      [] op = "get_lyrics" -> CHUNK_LYRICS
      [] op \in {"get_audio", "stream_audio"} -> CHUNK_AUDIO
      [] op = "get_cover" -> CHUNK_COVER

SectionReads == {"get_metadata", "get_lyrics", "get_audio", "get_cover", "stream_audio"}

\* what get_X answers for section s of a Package
GetSection(package, s) ==
    CASE s = CHUNK_METADATA -> dmusicpak_get_metadata(package, {})
      [] s = CHUNK_LYRICS -> dmusicpak_get_lyrics(package, {})
      [] s = CHUNK_AUDIO -> dmusicpak_get_audio(package, {})
      [] s = CHUNK_COVER -> dmusicpak_get_cover(package, {})

\* the chunk types the input frames
FramedTypes == { Frames(input, 12)[i].type : i \in DOMAIN Frames(input, 12) }

\* load_memory returned a Package and read inside the input only
Decoded == loaded.done /\ ~loaded.crashed /\ ~loaded.null /\ loaded.hi <= Len(input)

C20_AbsentNotSupported ==
    /\ touched = {} => Present(pkg) = {}
    /\ (call.op \in SectionReads /\ SectionOf(call.op) \notin touched)
       => /\ call.error = "NOT_SUPPORTED"
          /\ call.out = Unwritten
          /\ call.slices = << >>
          /\ ~call.active
    /\ Decoded
       => \A s \in (1..4) \ FramedTypes :
             /\ GetSection(loaded.package, s).error = "NOT_SUPPORTED"
             /\ GetSection(loaded.package, s).out = Unwritten
             /\ s = CHUNK_AUDIO
                => stream_audio_enter(loaded.package)
                     = [error |-> "NOT_SUPPORTED", active |-> FALSE]

\* get_lyrics was called on a Package that holds metadata and audio but
\* never had lyrics set, and answered NotSupported
C20_Witness ==
    /\ call.op = "get_lyrics"
    /\ touched = {CHUNK_METADATA, CHUNK_AUDIO}
    /\ Present(pkg) = {CHUNK_METADATA, CHUNK_AUDIO}
    /\ call.error = "NOT_SUPPORTED"
    /\ call.out = Unwritten

\* ------------------------------------------------------------------------
\* C21 The in-memory audio section carries the format tag: after set_audio
\*     with format f, get_audio on the same Package, with no save or load
\*     in between, returns format f.
\* ------------------------------------------------------------------------
C21_AudioFormatKept ==
    (call.op = "set_audio" /\ call.error = "OK")
    => /\ pkg.audio.format = call.arg.format
       /\ dmusicpak_get_audio(pkg, {}).out.format = call.arg.format

\* ------------------------------------------------------------------------
\* write_string on its own  (io.cpp)
\* ------------------------------------------------------------------------
\* the bytes a C string is made of
StringAlphabet == {1, 65, 97, 128, 255}

\* a string of 2^32 + 1 bytes
LongString == LongPtr(<<65>>, UINT32_WRAP)

\* every string of up to MaxStringLen bytes, the absent string and a long one
StringInputs ==
    {Null, LongString}
      \cup { Ptr(b) : b \in UNION { [1..n -> StringAlphabet] : n \in 0..MaxStringLen } }

\* write_string(buffer, str): call.out is what it wrote to buffer, call.ret
\* what it returned
WriteString ==
    /\ call = NoCall
    /\ \E str \in StringInputs :
          \E written \in {write_string(str)} :
             call' = Call("write_string", str, {}, pkg, "OK", Len(written), written)
    /\ UNCHANGED << pkg, rc, saved, input, origin, loaded, touched, oom >>

StringNext == WriteString

StringSpec == Init /\ [][StringNext]_vars

\* ------------------------------------------------------------------------
\* C22 write_string encodes an absent string and an empty string to the
\*     same bytes, a 4-byte length of 0 and no body, and any other string
\*     as its byte length in 4 little-endian bytes followed by exactly its
\*     bytes.
\* ------------------------------------------------------------------------
\* the value of the first four bytes of b read as a little-endian integer,
\* for values below 2^30
LittleEndian4(b) == b[1] + 256 * b[2] + 65536 * b[3] + W24 * b[4]

C22_StringEncoding ==
    call.op = "write_string"
    => IF call.arg.null \/ strlen(call.arg) = 0
       THEN call.out = <<0, 0, 0, 0>>
       ELSE /\ Len(call.out) = 4 + strlen(call.arg)
            /\ LittleEndian4(call.out) = strlen(call.arg)
            /\ call.arg.more = 0
            /\ SubSeq(call.out, 5, Len(call.out)) = call.arg.bytes

\* ------------------------------------------------------------------------
\* C23 Decoding does not depend on chunk order: for a container whose
\*     chunks have pairwise distinct types, every permutation of the
\*     chunks under the same header decodes to the same Package.
\* ------------------------------------------------------------------------
\* the chunks of the input, as its chunk headers frame them
InputFrames == Frames(input, 12)

\* the input is a header followed by exactly the chunks it counts
WholeContainer ==
    /\ HeaderOk(input)
    /\ InputFrames # << >>
    /\ Len(InputFrames) = read_uint32_le(input, 8, 0)
    /\ InputFrames[Len(InputFrames)].end = Len(input)

DistinctTypes ==
    \A i, j \in DOMAIN InputFrames :
        i # j => InputFrames[i].type # InputFrames[j].type

\* the bytes of the chunks of the input from the k-th on, taken in the
\* order p
RECURSIVE ChunksInOrder(_, _)
ChunksInOrder(p, k) ==
    IF k > Len(InputFrames) THEN << >>
    ELSE SubSeq(input, InputFrames[p[k]].start + 1, InputFrames[p[k]].end)
           \o ChunksInOrder(p, k + 1)

\* the input with its chunks in the order p
Reordered(p) == SubSeq(input, 1, 12) \o ChunksInOrder(p, 1)

\* load_memory gives for data what it gave for the input
SameDecode(data) ==
    /\ dmusicpak_load_memory(data, loaded.g, loaded.fail).null = loaded.null
    /\ dmusicpak_load_memory(data, loaded.g, loaded.fail).package = loaded.package

C23_OrderIndependent ==
    (loaded.done /\ ~loaded.crashed /\ WholeContainer /\ DistinctTypes)
    => \A p \in Permutations(DOMAIN InputFrames) : SameDecode(Reordered(p))

\* ------------------------------------------------------------------------
\* C24 In every Package decode returns, each section is either present
\*     with all its fields and payload taken from one chunk, or absent
\*     with its fields at their empty defaults.
\* ------------------------------------------------------------------------
\* the fields of section s of a Package
SectionFields(package, s) ==
    CASE s = CHUNK_METADATA -> package.metadata
      [] s = CHUNK_LYRICS -> package.lyrics
      [] s = CHUNK_AUDIO -> package.audio
      [] s = CHUNK_COVER -> package.cover

\* the fields of section s of a new Package
EmptyFields(s) == SectionFields(dmusicpak_create, s)

\* a container that holds the i-th chunk of the input and nothing else
OneChunk(i) ==
    Header(DMUSICPAK_MAGIC, DMUSICPAK_VERSION, 1)
      \o SubSeq(input, InputFrames[i].start + 1, InputFrames[i].end)

\* section s of the decoded Package is what the i-th chunk alone decodes to
FromChunk(s, i) ==
    /\ InputFrames[i].type = s
    /\ InputFrames[i].end <= Len(input)
    /\ Has(dmusicpak_load_memory(OneChunk(i), loaded.g, loaded.fail).package, s)
    /\ SectionFields(dmusicpak_load_memory(OneChunk(i), loaded.g, loaded.fail).package, s)
         = SectionFields(loaded.package, s)

C24_SectionsWhole ==
    (loaded.done /\ ~loaded.crashed /\ ~loaded.null)
    => \A s \in 1..4 :
          IF Has(loaded.package, s)
          THEN \E i \in DOMAIN InputFrames : FromChunk(s, i)
          ELSE SectionFields(loaded.package, s) = EmptyFields(s)

\* ------------------------------------------------------------------------
\* C25 Each of set_metadata, set_lyrics, set_audio and set_cover, whether
\*     it succeeds or returns an error, leaves the other three sections
\*     (fields, payloads and presence flags) unchanged.
\* ------------------------------------------------------------------------
\* the section a set_* call is about
SetSection(op) ==
    CASE op = "set_metadata" -> CHUNK_METADATA
      [] op = "set_lyrics" -> CHUNK_LYRICS
      [] op = "set_audio" -> CHUNK_AUDIO
      [] op = "set_cover" -> CHUNK_COVER

C25_OtherSectionsKept ==
    call.op \in SetOps
    => \A s \in (1..4) \ {SetSection(call.op)} :
          /\ Has(pkg, s) = Has(call.before, s)
          /\ SectionFields(pkg, s) = SectionFields(call.before, s)

\* set_cover was called on a Package that holds lyrics and audio with
\* payloads, and they are still there
C25_Witness ==
    /\ call.op = "set_cover"
    /\ call.error = "OK"
    /\ Present(call.before) = {CHUNK_LYRICS, CHUNK_AUDIO}
    /\ Present(pkg) = {CHUNK_LYRICS, CHUNK_AUDIO, CHUNK_COVER}
    /\ pkg.lyrics.data = Ptr(<<10, 11>>)
    /\ pkg.audio.data = Ptr(<<20, 21, 22>>)

\* a set_lyrics call failed on a Package that holds audio and a cover
C25_FailedWitness ==
    /\ call.op = "set_lyrics"
    /\ call.error = "MEMORY_ALLOC"
    /\ Present(call.before) = {CHUNK_AUDIO, CHUNK_COVER}
    /\ pkg.audio.data = Ptr(<<20, 21, 22>>)
    /\ pkg.cover.data = Ptr(<<30, 31>>)

\* ------------------------------------------------------------------------
\* C26 For every offset and size a size_t can hold, pairs whose sum passes
\*     the size_t maximum included, get_audio_chunk on a Package with an
\*     audio payload of L bytes returns a count n with n <= size and
\*     offset + n <= L, and copies only the payload bytes in
\*     [offset, offset + n).
\* ------------------------------------------------------------------------
\* the Package holds an audio payload of as many bytes as its size says
HoldsAudio == Has(pkg, CHUNK_AUDIO) /\ ObjLen(pkg.audio.data) = pkg.audio.size

C26_ChunkInBounds ==
    (call.op = "get_audio_chunk" /\ HoldsAudio)
    => /\ ~call.crashed
       /\ ~call.overrun
       /\ call.ret >= 0
       /\ call.ret <= call.arg[2]
       /\ call.arg[1] > pkg.audio.size => call.ret = 0
       /\ call.arg[1] <= pkg.audio.size => call.ret <= pkg.audio.size - call.arg[1]
       /\ call.ret > 0 => call.out = PayloadSlice(pkg.audio, call.arg[1], call.ret)

\* ------------------------------------------------------------------------
\* Containers with several chunks of one type  (io.cpp)
\* ------------------------------------------------------------------------
\* a second metadata body
OtherMetaBody == write_metadata_chunk(
                     Meta(Null, Ptr(<<65>>), Null, Null, Null, Null, 7, 2, 9, 1))

\* well-formed chunks, several of each type, with and without a payload
RepeatedChunks ==
    { Raw(CHUNK_LYRICS, 6, LyricsBody(1, <<10, 11>>)),
      Raw(CHUNK_LYRICS, 5, LyricsBody(2, <<12>>)),
      Raw(CHUNK_LYRICS, 4, LyricsBody(3, << >>)),
      Raw(CHUNK_AUDIO, 6, AudioBody(Ptr(<<97>>), <<20>>)),
      Raw(CHUNK_AUDIO, 6, AudioBody(Null, <<21, 22>>)),
      Raw(CHUNK_COVER, 13, CoverBody(1, 2, 3, <<30>>)),
      Raw(CHUNK_COVER, 14, CoverBody(2, 4, 5, <<31, 32>>)),
      Raw(CHUNK_METADATA, Len(MetaBody), MetaBody),
      Raw(CHUNK_METADATA, Len(OtherMetaBody), OtherMetaBody) }

\* ... and appends one of these chunks to the input
AppendRepeated ==
    /\ origin.kind = "crafted"
    /\ ~loaded.done
    /\ Len(origin.chunks) < MaxChunks
    /\ HeaderOk(input)
    /\ \E c \in RepeatedChunks :
          /\ input' = input \o RawBytes(c)
          /\ origin' = [origin EXCEPT !.chunks = Append(@, c)]
    /\ UNCHANGED << pkg, rc, saved, loaded, call, touched, oom >>

RepeatedNext ==
    \/ StartInput
    \/ AppendRepeated
    \/ LoadMemory

RepeatedSpec == Init /\ [][RepeatedNext]_vars

\* ------------------------------------------------------------------------
\* C27 If a container holds two or more chunks of one section type, the
\*     section in the decoded Package (presence, fields and payload) is
\*     the one that decoding only the last such chunk would give.
\* ------------------------------------------------------------------------
\* the chunks of type s that load_memory reads: whole ones among the first
\* chunk_count
ChunksOfType(s) ==
    { i \in DOMAIN InputFrames :
        /\ i <= read_uint32_le(input, 8, 0)
        /\ InputFrames[i].end <= Len(input)
        /\ InputFrames[i].type = s }

LastOf(S) == CHOOSE i \in S : \A j \in S : j <= i

\* section s of the decoded Package is what its last chunk alone gives
LastChunkWins(s) ==
    /\ Has(loaded.package, s)
         = Has(dmusicpak_load_memory(OneChunk(LastOf(ChunksOfType(s))),
                                     loaded.g, loaded.fail).package, s)
    /\ SectionFields(loaded.package, s)
         = SectionFields(dmusicpak_load_memory(OneChunk(LastOf(ChunksOfType(s))),
                                               loaded.g, loaded.fail).package, s)

C27_LastChunkWins ==
    (loaded.done /\ ~loaded.crashed /\ ~loaded.null)
    => \A s \in 1..4 : Cardinality(ChunksOfType(s)) >= 2 => LastChunkWins(s)

\* ------------------------------------------------------------------------
\* get_audio_chunk_url  (network.cpp)
\* ------------------------------------------------------------------------
\* While a request is under way call.out holds the MemoryBuffer mem, the
\* bytes of the response body still to come (left), the HTTP status, what
\* became of the caller's buffer (reallocated, freed), the highest index
\* written in it (stored) and whether a write_callback reported an error
\* (failed).  mem.data is "buffer" while it points to the caller's buffer
\* and "heap" once realloc has moved the block.

\* what realloc(mem->data, new_capacity) may do
ReallocOutcomes == {"fail", "moved", "inplace"}

\* new_capacity of write_callback
NewCapacity(mem, realsize) ==
    IF mem.capacity * 2 < mem.offset + realsize
    THEN mem.offset + realsize + 1024
    ELSE mem.capacity * 2

\* write_callback(contents, size, nmemb, userp) with realsize = size * nmemb:
\* what it returns, whether it called realloc on mem->data, and mem after it
write_callback(mem, realsize, outcome) ==
    IF mem.offset + realsize > mem.capacity
    THEN IF outcome = "fail"
         THEN [ret |-> 0, realloc |-> TRUE, mem |-> mem]
         ELSE [ret |-> realsize, realloc |-> TRUE,
               mem |-> [data |-> IF outcome = "moved" THEN "heap" ELSE mem.data,
                        capacity |-> NewCapacity(mem, realsize),
                        offset |-> mem.offset + realsize,
                        size |-> mem.offset + realsize]]
    ELSE [ret |-> realsize, realloc |-> FALSE,
          mem |-> [mem EXCEPT !.offset = mem.offset + realsize,
                              !.size = mem.offset + realsize]]

\* the sizes of the caller's buffer, the lengths of the response body and
\* the HTTP status codes tried
UrlSizes == {0, 1, 2}
UrlOffsets == {0, 3}
UrlBodies == 0..MaxBody
UrlStatus == {200, 206, 404}

\* get_audio_chunk_url(url, offset, size, buffer, timeout_ms) up to
\* curl_easy_perform: size == 0 returns -1, else mem is set up over buffer
UrlStart ==
    /\ call = NoCall
    /\ origin.kind = "none"
    /\ \E offset \in UrlOffsets, size \in UrlSizes, body \in UrlBodies,
          status \in UrlStatus :
          call' = IF size = 0
                  THEN Call("get_audio_chunk_url", << offset, size >>, {}, pkg,
                            "OK", -1, Unwritten)
                  ELSE [Call("get_audio_chunk_url", << offset, size >>, {}, pkg, "OK", 0,
                             [mem |-> [data |-> "buffer", size |-> 0,
                                       capacity |-> size, offset |-> 0],
                              left |-> body, status |-> status,
                              reallocated |-> FALSE, freed |-> FALSE,
                              stored |-> 0, failed |-> FALSE])
                          EXCEPT !.active = TRUE]
    /\ UNCHANGED << pkg, rc, saved, input, origin, loaded, touched, oom >>

\* curl hands write_callback the next piece of the response body
UrlWrite ==
    /\ call.op = "get_audio_chunk_url"
    /\ call.active
    /\ ~call.out.failed
    /\ call.out.left > 0
    /\ \E realsize \in 1..call.out.left, outcome \in ReallocOutcomes :
       \E r \in {write_callback(call.out.mem, realsize, outcome)} :
          call' = [call EXCEPT
                     !.out.mem = r.mem,
                     !.out.left = @ - realsize,
                     !.out.failed = (r.ret # realsize),
                     !.out.reallocated =
                         @ \/ (r.realloc /\ r.ret # 0 /\ call.out.mem.data = "buffer"),
                     !.out.freed = @ \/ (call.out.mem.data = "buffer" /\ r.mem.data = "heap"),
                     !.out.stored =
                         IF r.ret # 0 /\ r.mem.data = "buffer" THEN r.mem.offset ELSE @]
    /\ UNCHANGED << pkg, rc, saved, input, origin, loaded, touched, oom >>

\* curl_easy_perform returns; the status check and the return value
UrlReturn ==
    /\ call.op = "get_audio_chunk_url"
    /\ call.active
    /\ call.out.failed \/ call.out.left = 0
    /\ call' = [call EXCEPT
                  !.active = FALSE,
                  !.ret = IF call.out.failed THEN -1
                          ELSE IF call.out.status # 206
                                  /\ (call.out.status < 200 \/ call.out.status >= 300)
                          THEN -1
                          ELSE ToI64(call.out.mem.size)]
    /\ UNCHANGED << pkg, rc, saved, input, origin, loaded, touched, oom >>

UrlNext ==
    \/ UrlStart
    \/ UrlWrite
    \/ UrlReturn

UrlSpec == Init /\ [][UrlNext]_vars

\* ------------------------------------------------------------------------
\* C28 get_audio_chunk_url never stores more than size bytes in the
\*     caller's buffer and never reallocates or frees that buffer,
\*     whatever body length the server sends; a non-negative return value
\*     is <= size.
\* ------------------------------------------------------------------------
C28_UrlChunkBounded ==
    (call.op = "get_audio_chunk_url" /\ call.arg[2] > 0)
    => /\ call.out.stored <= call.arg[2]
       /\ ~call.out.reallocated
       /\ ~call.out.freed
       /\ (~call.active /\ call.ret >= 0) => call.ret <= call.arg[2]

\* ------------------------------------------------------------------------
\* Reading the audio chunk by chunk  (example_stream.cpp, dmusicpak.cpp)
\* ------------------------------------------------------------------------
\* While the loop runs, call.arg is its chunk size, call.offset its offset
\* and call.slices the reads that returned bytes: where each started, the
\* count it returned and the bytes it put in the buffer.

\* the chunk sizes of the loop
LoopChunkSizes == {1, 2, 4096, SIZE_MAX_ENC}

\* size_t offset = 0; the loop is entered
ChunkLoopStart ==
    /\ Building
    /\ call.op # "chunk_loop"
    /\ \E chunk_size \in LoopChunkSizes :
          call' = [Call("chunk_loop", chunk_size, {}, pkg, "OK", 0, Unwritten)
                     EXCEPT !.active = TRUE]
    /\ UNCHANGED << pkg, rc, saved, input, origin, loaded, touched, oom >>

\* one turn of the loop: get_audio_chunk(package, offset, chunk_size, buffer),
\* `if (bytes_read <= 0) break`, `offset += bytes_read`
ChunkLoopRead ==
    /\ call.op = "chunk_loop"
    /\ call.active
    /\ Len(call.slices) < MaxReads
    /\ \E g \in GarbageBytes :
       \E r \in {dmusicpak_get_audio_chunk(pkg, call.offset, call.arg, g)},
          crash \in BOOLEAN :
          /\ crash => (r.overrun \/ r.overflow)
          /\ call' = IF crash
                     THEN [call EXCEPT !.active = FALSE, !.crashed = TRUE,
                                       !.overrun = TRUE]
                     ELSE IF r.ret <= 0
                     THEN [call EXCEPT !.active = FALSE, !.ret = r.ret]
                     ELSE [call EXCEPT
                             !.ret = r.ret,
                             !.overrun = @ \/ r.overrun,
                             !.overflow = @ \/ r.overflow,
                             !.offset = AddSize(@, r.ret),
                             !.slices = Append(@, [offset |-> call.offset,
                                                   len |-> r.ret, out |-> r.out])]
    /\ UNCHANGED << pkg, rc, saved, input, origin, loaded, touched, oom >>

ChunkLoopNext ==
    \/ SetAudio
    \/ ChunkLoopStart
    \/ ChunkLoopRead

ChunkLoopSpec == Init /\ [][ChunkLoopNext]_vars

\* ------------------------------------------------------------------------
\* C29 Reading the audio by repeated get_audio_chunk calls with a fixed
\*     positive chunk size, advancing the offset by each returned count
\*     and stopping at the first result <= 0, ends after finitely many
\*     calls, and the bytes returned, put together, are the whole audio
\*     payload.
\* ------------------------------------------------------------------------
\* read i returned the payload bytes that follow those of read i - 1
ReadFollows(i) ==
    /\ call.slices[i].offset =
           IF i = 1 THEN 0 ELSE call.slices[i - 1].offset + call.slices[i - 1].len
    /\ ~pkg.audio.data.null
    /\ call.slices[i].offset + call.slices[i].len <= ObjLen(pkg.audio.data)
    /\ call.slices[i].out
         = PayloadSlice(pkg.audio, call.slices[i].offset, call.slices[i].len)

\* the bytes of the payload still to read: it decreases with every read
\* that returns bytes, so the loop ends
C29_ChunkLoopReadsAll ==
    (call.op = "chunk_loop" /\ Has(pkg, CHUNK_AUDIO))
    => /\ ~call.crashed
       /\ ~call.overrun
       /\ \A i \in DOMAIN call.slices : call.slices[i].len >= 1 /\ ReadFollows(i)
       /\ call.offset <= ObjLen(pkg.audio.data)
       /\ ~call.active => /\ call.ret = 0
                          /\ call.offset = ObjLen(pkg.audio.data)

\* ------------------------------------------------------------------------
\* C30 After any sequence of create, set_* and decode operations (set_*
\*     calls given a null data pointer with a non-zero size and calls that
\*     return an error included), every present lyrics, audio and cover
\*     section records a size equal to the number of payload bytes the
\*     Package holds, so encode, get_* and get_audio_chunk never copy from
\*     a missing or shorter buffer.
\* ------------------------------------------------------------------------
\* the payload bytes behind a data pointer
HeldBytes(data) == IF data.null THEN 0 ELSE ObjLen(data)

\* the sections with a payload
PayloadSections == {CHUNK_LYRICS, CHUNK_AUDIO, CHUNK_COVER}

SizesMatch(package) ==
    \A s \in PayloadSections :
        Has(package, s)
        => SectionFields(package, s).size = HeldBytes(SectionFields(package, s).data)

C30_SizeMatchesPayload ==
    /\ SizesMatch(pkg)
    /\ (loaded.done /\ ~loaded.crashed /\ ~loaded.null /\ loaded.hi <= Len(input))
       => SizesMatch(loaded.package)
    /\ saved.done => ~saved.overrun
    /\ call.op = "get_audio_chunk" => (~call.overrun \/ call.overflow \/ call.ret < 0)

====
